---- MODULE Spec2Model ----
(***************************************************************************)
(* Session and room-state core of the Quaver "Z" multiplayer server.       *)
(*                                                                         *)
(*   src/sessions/user.go      the User session object, its mutex-guarded  *)
(*                             accessors and mutators, and the session     *)
(*                             part of the Redis mirror                    *)
(*   src/unnamed/part_000      SendPacketToConnection / ToUser / ToUsers   *)
(*   src/multiplayer/redis.go  the Redis mirror of a multiplayer Game      *)
(*                                                                         *)
(* Goroutines are the Workers; every call is split at the points where     *)
(* another goroutine can observe or interfere: taking the mutex, each      *)
(* database lookup, each Redis command, each connection write.             *)
(***************************************************************************)
EXTENDS Integers, Sequences, FiniteSets, TLC

\* ------------------------------------------------------------------ bounds
\* Largest number of calls the goroutines start in one behaviour.
MaxCalls == 3
\* The clock runs from 0 to MaxTime (milliseconds since the epoch, scaled).
MaxTime == 2
\* Highest game mode: the loop of SetStats runs over 1 .. MaxMode.
MaxMode == 2
\* Longest recipient list handed to SendPacketToUsers.
MaxRecipients == 2
\* Largest number of room operations in one behaviour.
MaxGameOps == 4
\* Largest number of calls in a behaviour checked for termination.
MaxLiveCalls == 2

\* --------------------------------------------------------------- universe
Workers == {"w1", "w2"}
\* The goroutine that broadcasts.
Senders == {"w1"}
NoOne == "none"

\* The session whose mutex-level behaviour is modelled, and another user.
TheUser == 7
OtherUser == 8
UserIds == {TheUser, OtherUser}

\* db.User rows (u.Info). MuteEndTime is the stored mute expiry of TheUser.
MuteEndTime == 1

Info(id) ==
    [ Id |-> id,
      SteamId |-> "steam" \o ToString(id),
      Username |-> "user" \o ToString(id),
      UserGroups |-> IF id = TheUser THEN 3 ELSE 1,
      AvatarUrl |-> "avatar" \o ToString(id),
      Country |-> "US",
      MuteEndTime |-> IF id = TheUser THEN MuteEndTime ELSE 0 ]

\* utils.GenerateRandomString(64): one fresh token per session.
Token(id) == "tok" \o ToString(id)

\* common.ModeKeys4, the game mode NewUser installs.
ModeKeys4 == 1

\* The status NewUser installs.
NewUserStatus ==
    [ Status |-> 0, MapId |-> -1, MapMd5 |-> "", GameMode |-> ModeKeys4,
      Content |-> "", Modifiers |-> 0 ]

\* Statuses clients report (arguments of SetClientStatus).
StatusArgs ==
    { [ Status |-> 1, MapId |-> 10, MapMd5 |-> "aa", GameMode |-> 1,
        Content |-> "song", Modifiers |-> 0 ],
      [ Status |-> 2, MapId |-> 20, MapMd5 |-> "bb", GameMode |-> 2,
        Content |-> "edit", Modifiers |-> 4 ] }

\* ------------------------------------------------------------------ Redis
\* SET key value: the key holds exactly value afterwards.
RedisSet(r, k, v) == (k :> v) @@ r

\* DEL key...: the keys are absent afterwards.
RedisDel(r, keys) == [k \in DOMAIN r \ keys |-> r[k]]

\* HSET key field value...: the named fields are set, every other field of
\* an existing hash is kept.
RedisHSet(r, k, fields) ==
    (k :> (IF k \in DOMAIN r THEN fields @@ r[k] ELSE fields)) @@ r

\* fmt.Sprintf("quaver:server:session:%v", u.token)
SessionKeyOfToken(t) == "quaver:server:session:" \o t

getRedisSessionKey(id) == SessionKeyOfToken(Token(id))

getRedisClientStatusKey(id) == "quaver:server:user_status:" \o ToString(id)

\* ------------------------------------------------------------- game data
\* The room of the example: id 42, at most 8 players.
GameId == 42
GameMaxPlayers == 8

\* game.Data of a game just created by host. PlayersReady and
\* PlayersWithoutMap are id lists read through utils.Includes; PlayerWins and
\* PlayerModifiers are lists of per-player entries read through utils.Find.
\* MapDifficultyRating is kept in tenths.
NewGame(host) ==
    [ Id |-> GameId, Name |-> "room", HasPassword |-> FALSE,
      MaxPlayers |-> GameMaxPlayers, MapMD5 |-> "md5", MapId |-> 1,
      MapsetId |-> 2, MapName |-> "map", HostId |-> host, Ruleset |-> 1,
      IsHostRotation |-> FALSE, MapGameMode |-> ModeKeys4,
      MapDifficultyRating |-> 0, InProgress |-> FALSE, GlobalModifiers |-> 0,
      FreeModType |-> 0, IsTournamentMode |-> FALSE,
      PlayerIds |-> {}, PlayersReady |-> {}, PlayersWithoutMap |-> {},
      PlayerWins |-> <<>>, PlayerModifiers |-> <<>> ]

\* No cache operation of the game yet. op names the operation, id its player,
\* ok whether its command was issued and succeeded, had a field ("d" of the
\* settings, "r" of a player) of the record the key held before.
NoOp == [op |-> "none", id |-> 0, ok |-> FALSE, had |-> ""]

\* No cache function of the sessions package called yet: the process has
\* just started. fn names the function called last, failed says whether a
\* Redis command of it failed, err whether it returned an error, dels how
\* many DEL commands it issued.
NoCall == [fn |-> "none", failed |-> FALSE, err |-> FALSE, dels |-> 0]

\* The startup clear has run on an empty cache.
StartedClean ==
    [fn |-> "ClearRedisUserTokens", failed |-> FALSE, err |-> FALSE, dels |-> 0]

\* ------------------------------------------------------------------ state
VARIABLES
    mutex,      \* u.mutex: the goroutine holding it, or NoOne
    stats,      \* u.stats: map from mode to the stats loaded for it
    status,     \* u.status: the *objects.ClientStatus the session points at
    now,        \* time.Now().UnixMilli()
    redis,      \* db.Redis: map from key to value
    online,     \* the session registry: ids of the registered sessions
    tornDown,   \* ids whose session was removed from the registry
    pc,         \* per goroutine: where it stands in its call
    loc,        \* per goroutine: arguments, locals and result of its call
    calls,      \* number of calls started so far
    argsStarted,\* history: arguments of the SetClientStatus calls started
    installs,   \* history: number of assignments to u.status
    lastSetter, \* history: the goroutine that assigned u.status last
    anyFail,    \* history: whether a session cache command has failed
    connUp,     \* per user: whether writes to user.Conn succeed
    inbox,      \* per user: the text frames written to user.Conn
    game,       \* game.Data of the multiplayer game
    phase,      \* the game's life: "none", "open", "closed"
    lastOp,     \* history: the last cache operation of the game
    delFailed,  \* history: keys of the game whose DEL failed
    everCached, \* history: players whose record was written for the game
    gameOps,    \* number of room operations so far
    cacheCall   \* history: the last call of a cache function of sessions

sessVars == <<mutex, stats, status>>
envVars == <<now, redis, online, tornDown>>
histVars == <<argsStarted, installs, lastSetter, anyFail>>
netVars == <<connUp, inbox>>
\* What the session's operations and the registry leave alone.
notUser == <<connUp, inbox, game, phase, lastOp, delFailed, everCached,
             gameOps, cacheCall>>
gameVars == <<game, phase, lastOp, delFailed, everCached, gameOps>>
\* What only the session's own operations touch.
userOnly == <<mutex, stats, status, now, tornDown, argsStarted, installs,
              lastSetter, anyFail, cacheCall>>
\* What a broadcast leaves alone.
notNet == <<userOnly, redis, online, gameVars>>
\* What the game's operations leave alone.
notGame == <<userOnly, online, pc, loc, calls, netVars>>
vars == <<mutex, stats, status, now, redis, online, tornDown, pc, loc, calls,
          argsStarted, installs, lastSetter, anyFail, connUp, inbox, game, phase,
          lastOp, delFailed, everCached, gameOps, cacheCall>>

\* Values db.GetUserStats can return for a mode.
StatsVals == {"statsA", "statsB"}

\* for i := 1; i < int(common.ModeEnumMaxValue); i++
ModeEnumMaxValue == MaxMode + 1

\* Locals of a goroutine outside any call.
Loc0 ==
    [ arg |-> NewUserStatus,    \* SetClientStatus: status
      ret |-> NewUserStatus,    \* GetClientStatus: the result
      snap |-> NewUserStatus,   \* addUserClientStatusToRedis: u.status as read
      attempts |-> 0,           \* cache commands issued by this call
      failed |-> FALSE,         \* whether a cache command of this call failed
      saw |-> 0,                \* installs when GetClientStatus read
      i |-> 0,                  \* SetStats: the loop variable
      err |-> FALSE,            \* SetStats: the error returned
      before |-> <<>>,          \* u.stats when SetStats was entered
      loaded |-> <<>>,          \* what db.GetUserStats returned to this call
      after |-> <<>>,           \* u.stats when SetStats released the mutex
      t |-> 0,                  \* IsMuted: the time it read
      b |-> FALSE,              \* IsMuted: the result
      data |-> "",              \* SendPacketToUsers: data
      users |-> <<>>,           \* SendPacketToUsers: users
      k |-> 0,                  \* SendPacketToUsers: position of the range loop
      log |-> <<>>,             \* writes attempted by this call, in order
      inbox0 |-> <<>>,          \* frames each connection held at the call
      pkt |-> <<>> ]            \* SerializeForPacket: the result

\* The process has no session and no game.
InitMemory ==
    /\ mutex = NoOne
    /\ stats = <<>>
    /\ status = NewUserStatus
    /\ now = 0
    /\ online = {}
    /\ tornDown = {}
    /\ pc = [w \in Workers |-> "idle"]
    /\ loc = [w \in Workers |-> Loc0]
    /\ calls = 0
    /\ argsStarted = {}
    /\ installs = 0
    /\ lastSetter = NoOne
    /\ anyFail = FALSE
    /\ connUp = [c \in UserIds |-> TRUE]
    /\ inbox = [c \in UserIds |-> <<>>]
    /\ game = NewGame(0)
    /\ phase = "none"
    /\ lastOp = NoOp
    /\ delFailed = {}
    /\ everCached = {}
    /\ gameOps = 0

\* The process is up on an empty cache and accepts connections.
Init ==
    /\ InitMemory
    /\ redis = <<>>
    /\ cacheCall = StartedClean

\* Connections are accepted once the startup clear has been called.
Started == cacheCall.fn # "none"

\* A goroutine starts a call.
Begin(w, entry) ==
    /\ pc[w] = "idle"
    /\ calls < MaxCalls
    /\ calls' = calls + 1
    /\ pc' = [pc EXCEPT ![w] = entry]

\* Handlers reach the session through the registry: a call on it starts
\* while it is registered, and runs on after a teardown.
OnSession == TheUser \in online

\* u.mutex.Lock()
Lock(w, at, next) ==
    /\ pc[w] = at
    /\ mutex = NoOne
    /\ mutex' = w
    /\ pc' = [pc EXCEPT ![w] = next]

\* The call has returned; the goroutine forgets its locals.
Return(w) ==
    /\ pc[w] \in {"SCS_ret", "GCS_ret", "SS_ret", "GS_ret", "IM_ret", "SPU_ret",
                 "SFP_ret"}
    /\ pc' = [pc EXCEPT ![w] = "idle"]
    /\ loc' = [loc EXCEPT ![w] = Loc0]
    /\ UNCHANGED <<sessVars, envVars, calls, histVars>>
    /\ UNCHANGED notUser

\* --------------------------------------------------------- client status
\* Faulty variant: the fields are copied into the old status object, and
\* only the first one is.
AssignStatusMerged(cur, new) == [cur EXCEPT !.Status = new.Status]

\* Faulty variant: the assignment is lost.
AssignStatusDropped(cur, new) == cur

\* u.status = status
AssignStatus(cur, new) == new

\* Faulty variant: the unlock is deferred to the return, after the cache
\* write.
UnlockDeferred(holder) == holder

\* u.mutex.Unlock() of SetClientStatus, before the cache write.
UnlockBeforeCache(holder) == NoOne

\* The hash addUserClientStatusToRedis writes for a status.
StatusFields(s) ==
    [ s |-> ToString(s.Status),
      m |-> ToString(s.MapId),
      md5 |-> s.MapMd5,
      gm |-> ToString(s.GameMode),
      c |-> s.Content,
      mods |-> ToString(s.Modifiers) ]

SetClientStatus_Call(w) ==
    /\ OnSession
    /\ Begin(w, "SCS_lock")
    /\ \E s \in StatusArgs :
        /\ loc' = [loc EXCEPT ![w].arg = s]
        /\ argsStarted' = argsStarted \cup {s}
    /\ UNCHANGED <<sessVars, envVars, installs, lastSetter, anyFail>>
    /\ UNCHANGED notUser

SetClientStatus_Lock(w) ==
    /\ Lock(w, "SCS_lock", "SCS_locked")
    /\ UNCHANGED <<stats, status, envVars, loc, calls, histVars>>
    /\ UNCHANGED notUser

SetClientStatus_Store(w) ==
    /\ pc[w] = "SCS_locked"
    /\ status' = AssignStatus(status, loc[w].arg)
    /\ mutex' = UnlockBeforeCache(mutex)
    /\ installs' = installs + 1
    /\ lastSetter' = w
    /\ pc' = [pc EXCEPT ![w] = "SCS_read"]
    /\ UNCHANGED <<stats, envVars, loc, calls, argsStarted, anyFail>>
    /\ UNCHANGED notUser

\* addUserClientStatusToRedis(u) is handed the session, not the status: it
\* reads u.status, then issues the cache command.
addUserClientStatusToRedis_Read(w) ==
    /\ pc[w] = "SCS_read"
    /\ loc' = [loc EXCEPT ![w].snap = status]
    /\ pc' = [pc EXCEPT ![w] = "SCS_hset"]
    /\ UNCHANGED <<sessVars, envVars, calls, histVars>>
    /\ UNCHANGED notUser

addUserClientStatusToRedis_Write(w) ==
    /\ pc[w] = "SCS_hset"
    /\ \E ok \in BOOLEAN :
        /\ redis' = IF ok
                    THEN RedisHSet(redis, getRedisClientStatusKey(TheUser),
                                   StatusFields(loc[w].snap))
                    ELSE redis
        /\ loc' = [loc EXCEPT ![w].attempts = @ + 1,
                              ![w].failed = ~ok]
        /\ anyFail' = (anyFail \/ ~ok)
    /\ pc' = [pc EXCEPT ![w] = "SCS_ret"]
    /\ UNCHANGED <<sessVars, now, online, tornDown, calls, argsStarted,
                   installs, lastSetter>>
    /\ UNCHANGED notUser

SetClientStatus(w) ==
    \/ SetClientStatus_Call(w)
    \/ SetClientStatus_Lock(w)
    \/ SetClientStatus_Store(w)
    \/ addUserClientStatusToRedis_Read(w)
    \/ addUserClientStatusToRedis_Write(w)

GetClientStatus_Call(w) ==
    /\ OnSession
    /\ Begin(w, "GCS_lock")
    /\ UNCHANGED <<sessVars, envVars, loc, histVars>>
    /\ UNCHANGED notUser

GetClientStatus_Lock(w) ==
    /\ Lock(w, "GCS_lock", "GCS_locked")
    /\ UNCHANGED <<stats, status, envVars, loc, calls, histVars>>
    /\ UNCHANGED notUser

\* return u.status, then the deferred u.mutex.Unlock()
GetClientStatus_Read(w) ==
    /\ pc[w] = "GCS_locked"
    /\ loc' = [loc EXCEPT ![w].ret = status, ![w].saw = installs]
    /\ mutex' = NoOne
    /\ pc' = [pc EXCEPT ![w] = "GCS_ret"]
    /\ UNCHANGED <<stats, status, envVars, calls, histVars>>
    /\ UNCHANGED notUser

GetClientStatus(w) ==
    \/ GetClientStatus_Call(w)
    \/ GetClientStatus_Lock(w)
    \/ GetClientStatus_Read(w)

\* --------------------------------------------------------------- registry
\* SET quaver:server:session:<token> <user id>
addUserTokenToRedis(r, id, ok) ==
    IF ok THEN RedisSet(r, getRedisSessionKey(id), ToString(id)) ELSE r

\* DEL quaver:server:session:<token>
removeUserTokenFromRedis(r, id, ok) ==
    IF ok THEN RedisDel(r, {getRedisSessionKey(id)}) ELSE r

\* DEL quaver:server:user_status:<user id>
removeUserClientStatusFromRedis(r, id, ok) ==
    IF ok THEN RedisDel(r, {getRedisClientStatusKey(id)}) ELSE r

\* The registry's lookup of a session by its token.
GetUserByToken(t) == {id \in online : Token(id) = t}

\* The registry's lookup of a session by its user id.
GetUserById(id) == {x \in online : x = id}

\* A connection authenticated: the session is registered and its token is
\* written to the cache. A user logs in once in a behaviour.
AddUser(id) ==
    /\ Started
    /\ id \notin online
    /\ id \notin tornDown
    /\ online' = online \cup {id}
    /\ \E ok \in BOOLEAN :
        /\ redis' = addUserTokenToRedis(redis, id, ok)
        /\ anyFail' = (anyFail \/ ~ok)
    /\ UNCHANGED <<sessVars, now, tornDown, pc, loc, calls, argsStarted,
                   installs, lastSetter>>
    /\ UNCHANGED notUser

\* The connection closed: deregister, then best-effort cache cleanup.
RemoveUser(id) ==
    /\ id \in online
    /\ online' = online \ {id}
    /\ tornDown' = tornDown \cup {id}
    /\ \E ok1, ok2 \in BOOLEAN :
        /\ redis' = removeUserClientStatusFromRedis(
                        removeUserTokenFromRedis(redis, id, ok1), id, ok2)
        /\ anyFail' = (anyFail \/ ~ok1 \/ ~ok2)
    /\ UNCHANGED <<sessVars, now, pc, loc, calls, argsStarted, installs,
                   lastSetter>>
    /\ UNCHANGED notUser


\* ------------------------------------------------------------------ stats
\* db.GetUserStats(u.Info.Id, u.Info.Country, mode): a stats row, or an error.
DbErr == "error"

GetUserStats(mode) == StatsVals \cup {DbErr}

\* u.stats[mode] = stats
StoreStats(m, mode, v) == (mode :> v) @@ m

\* Faulty variant: the mutex is released on the normal return only.
UnlockOnSuccessOnly(holder, err) == IF err THEN holder ELSE NoOne

\* defer u.mutex.Unlock() of SetStats: runs on the error return and on the
\* normal return alike.
UnlockOnReturn(holder, err) == NoOne

SetStats_Call(w) ==
    /\ OnSession
    /\ Begin(w, "SS_lock")
    /\ UNCHANGED <<sessVars, envVars, loc, histVars>>
    /\ UNCHANGED notUser

SetStats_Lock(w) ==
    /\ Lock(w, "SS_lock", "SS_loop")
    /\ loc' = [loc EXCEPT ![w].i = 1, ![w].before = stats]
    /\ UNCHANGED <<stats, status, envVars, calls, histVars>>
    /\ UNCHANGED notUser

\* One turn of the loop: the lookup for mode i, then either the early
\* return of its error or the store into u.stats.
SetStats_Mode(w) ==
    /\ pc[w] = "SS_loop"
    /\ loc[w].i < ModeEnumMaxValue
    /\ \E res \in GetUserStats(loc[w].i) :
        IF res = DbErr
        THEN /\ loc' = [loc EXCEPT ![w].err = TRUE, ![w].after = stats]
             /\ mutex' = UnlockOnReturn(mutex, TRUE)
             /\ pc' = [pc EXCEPT ![w] = "SS_ret"]
             /\ UNCHANGED stats
        ELSE /\ stats' = StoreStats(stats, loc[w].i, res)
             /\ loc' = [loc EXCEPT ![w].i = @ + 1,
                                   ![w].loaded = (loc[w].i :> res) @@ @]
             /\ UNCHANGED <<mutex, pc>>
    /\ UNCHANGED <<status, envVars, calls, histVars>>
    /\ UNCHANGED notUser

\* The loop is over: return nil.
SetStats_Done(w) ==
    /\ pc[w] = "SS_loop"
    /\ ~(loc[w].i < ModeEnumMaxValue)
    /\ mutex' = UnlockOnReturn(mutex, FALSE)
    /\ loc' = [loc EXCEPT ![w].after = stats]
    /\ pc' = [pc EXCEPT ![w] = "SS_ret"]
    /\ UNCHANGED <<stats, status, envVars, calls, histVars>>
    /\ UNCHANGED notUser

SetStats(w) ==
    \/ SetStats_Call(w)
    \/ SetStats_Lock(w)
    \/ SetStats_Mode(w)
    \/ SetStats_Done(w)

GetStats_Call(w) ==
    /\ OnSession
    /\ Begin(w, "GS_lock")
    /\ UNCHANGED <<sessVars, envVars, loc, histVars>>
    /\ UNCHANGED notUser

GetStats_Lock(w) ==
    /\ Lock(w, "GS_lock", "GS_locked")
    /\ UNCHANGED <<stats, status, envVars, loc, calls, histVars>>
    /\ UNCHANGED notUser

\* return u.stats (the map itself), then the deferred unlock
GetStats_Read(w) ==
    /\ pc[w] = "GS_locked"
    /\ mutex' = NoOne
    /\ pc' = [pc EXCEPT ![w] = "GS_ret"]
    /\ UNCHANGED <<stats, status, envVars, loc, calls, histVars>>
    /\ UNCHANGED notUser

\* What a caller holds after GetStats returned: u.stats, the map of the
\* session itself (a Go map value refers to the map, it is not a copy).
GetStatsResult == stats

GetStats(w) ==
    \/ GetStats_Call(w)
    \/ GetStats_Lock(w)
    \/ GetStats_Read(w)

\* ------------------------------------------------------------------- mute
\* Faulty variant: muted at the expiry itself.
MutedAtOrAfter(muteEnd, t) == muteEnd >= t

\* u.Info.MuteEndTime > time.Now().UnixMilli()
MutedAt(muteEnd, t) == muteEnd > t

IsMuted_Call(w) ==
    /\ OnSession
    /\ Begin(w, "IM_lock")
    /\ UNCHANGED <<sessVars, envVars, loc, histVars>>
    /\ UNCHANGED notUser

IsMuted_Lock(w) ==
    /\ Lock(w, "IM_lock", "IM_locked")
    /\ UNCHANGED <<stats, status, envVars, loc, calls, histVars>>
    /\ UNCHANGED notUser

IsMuted_Read(w) ==
    /\ pc[w] = "IM_locked"
    /\ loc' = [loc EXCEPT ![w].t = now,
                          ![w].b = MutedAt(Info(TheUser).MuteEndTime, now)]
    /\ mutex' = NoOne
    /\ pc' = [pc EXCEPT ![w] = "IM_ret"]
    /\ UNCHANGED <<stats, status, envVars, calls, histVars>>
    /\ UNCHANGED notUser

IsMuted(w) ==
    \/ IsMuted_Call(w)
    \/ IsMuted_Lock(w)
    \/ IsMuted_Read(w)

\* ------------------------------------------------------------ serialize
\* Faulty variant: the database row itself is handed out.
PacketUserWholeRow(i) == i

\* &PacketUser{...}: a new object holding six fields of u.Info.
PacketUser(i) ==
    [ Id |-> i.Id,
      SteamId |-> i.SteamId,
      Username |-> i.Username,
      UserGroups |-> i.UserGroups,
      MuteEndTime |-> i.MuteEndTime,
      Country |-> i.Country ]

SerializeForPacket_Call(w) ==
    /\ OnSession
    /\ Begin(w, "SFP_lock")
    /\ UNCHANGED <<sessVars, envVars, loc, histVars>>
    /\ UNCHANGED notUser

SerializeForPacket_Lock(w) ==
    /\ Lock(w, "SFP_lock", "SFP_locked")
    /\ UNCHANGED <<stats, status, envVars, loc, calls, histVars>>
    /\ UNCHANGED notUser

\* return &PacketUser{...}, then the deferred u.mutex.Unlock()
SerializeForPacket_Read(w) ==
    /\ pc[w] = "SFP_locked"
    /\ loc' = [loc EXCEPT ![w].pkt = PacketUser(Info(TheUser))]
    /\ mutex' = NoOne
    /\ pc' = [pc EXCEPT ![w] = "SFP_ret"]
    /\ UNCHANGED <<stats, status, envVars, calls, histVars>>
    /\ UNCHANGED notUser

SerializeForPacket(w) ==
    \/ SerializeForPacket_Call(w)
    \/ SerializeForPacket_Lock(w)
    \/ SerializeForPacket_Read(w)

\* The clock advances.
Tick ==
    /\ now < MaxTime
    /\ now' = now + 1
    /\ UNCHANGED <<sessVars, redis, online, tornDown, pc, loc, calls, histVars>>
    /\ UNCHANGED notUser

\* ------------------------------------------------------------- broadcast
\* Payloads handed to the senders: one that json.Marshal encodes, one it
\* rejects (an unsupported type).
Payloads == {"ping", "chan"}

\* json.Marshal(data)
Marshal(d) ==
    IF d = "chan"
    THEN [err |-> TRUE, j |-> ""]
    ELSE [err |-> FALSE, j |-> "\"" \o d \o "\""]

\* Recipient lists: every sequence of at most MaxRecipients users.
RecipientLists ==
    UNION {[1..n -> UserIds] : n \in 0..MaxRecipients}

\* Faulty variant: a failed recipient is tried again.
NextRecipientRetry(k, n, ok) == IF ok THEN k + 1 ELSE k

\* Faulty variant: the loop ends at the first failed recipient.
NextRecipientStopOnError(k, n, ok) == IF ok THEN k + 1 ELSE n + 1

\* for _, user := range users: the position after the recipient at k.
NextRecipient(k, n, ok) == k + 1

SendPacketToUsers_Call(w) ==
    /\ Begin(w, "SPU_loop")
    /\ \E d \in Payloads, us \in RecipientLists :
        loc' = [loc EXCEPT ![w].data = d, ![w].users = us, ![w].k = 1,
                           ![w].inbox0 = inbox]
    /\ UNCHANGED netVars
    /\ UNCHANGED notNet

\* SendPacketToUser(data, user) for the recipient at k, that is
\* SendPacketToConnection(data, user.Conn): marshal, write one text frame,
\* log either error and return.
SendPacketToConnection(w) ==
    /\ pc[w] = "SPU_loop"
    /\ loc[w].k <= Len(loc[w].users)
    /\ LET c == loc[w].users[loc[w].k]
           m == Marshal(loc[w].data)
           ok == ~m.err /\ connUp[c]
       IN /\ inbox' = IF ok THEN [inbox EXCEPT ![c] = Append(@, m.j)] ELSE inbox
          /\ loc' = [loc EXCEPT
                       ![w].k = NextRecipient(@, Len(loc[w].users), ok),
                       ![w].log = IF m.err THEN @
                                  ELSE Append(@, [to |-> c, ok |-> ok])]
    /\ UNCHANGED <<pc, calls, connUp>>
    /\ UNCHANGED notNet

SendPacketToUsers_Done(w) ==
    /\ pc[w] = "SPU_loop"
    /\ loc[w].k > Len(loc[w].users)
    /\ pc' = [pc EXCEPT ![w] = "SPU_ret"]
    /\ UNCHANGED <<loc, calls, netVars>>
    /\ UNCHANGED notNet

SendPacketToUsers(w) ==
    \/ SendPacketToUsers_Call(w)
    \/ SendPacketToConnection(w)
    \/ SendPacketToUsers_Done(w)

\* A connection breaks: every later write to it fails.
ConnBreak(c) ==
    /\ connUp[c]
    /\ connUp' = [connUp EXCEPT ![c] = FALSE]
    /\ UNCHANGED <<inbox, pc, loc, calls>>
    /\ UNCHANGED notNet

\* ------------------------------------------------------------ game cache
\* utils.BoolToInt
BoolToInt(b) == IF b THEN 1 ELSE 0

\* utils.Includes
Includes(list, id) == id \in list

\* strconv.Itoa / strconv.FormatInt(x, 10)
Itoa(n) == ToString(n)

\* strconv.FormatFloat(x, 'f', -1, 64) of a rating given in tenths: the
\* shortest decimal text.
FormatFloat(tenths) ==
    IF tenths % 10 = 0
    THEN ToString(tenths \div 10)
    ELSE ToString(tenths \div 10) \o "." \o ToString(tenths % 10)

getMatchSettingsRedisKey(g) == "quaver:server:multiplayer:" \o ToString(g.Id)

\* Faulty variant: the room is missing from the key.
getPlayerRedisKeyNoRoom(g, id) ==
    "quaver:server:multiplayer:player:" \o ToString(id)

\* fmt.Sprintf("quaver:server:multiplayer:%v:player:%v", game.Data.Id, id)
getPlayerRedisKey(g, id) ==
    "quaver:server:multiplayer:" \o ToString(g.Id) \o ":player:" \o ToString(id)

\* The settings list of cacheMatchSettings.
MatchSettingsFields(g) ==
    [ n |-> g.Name,
      pw |-> Itoa(BoolToInt(g.HasPassword)),
      mp |-> Itoa(g.MaxPlayers),
      md5 |-> g.MapMD5,
      mid |-> Itoa(g.MapId),
      msid |-> Itoa(g.MapsetId),
      map |-> g.MapName,
      host |-> Itoa(g.HostId),
      r |-> Itoa(g.Ruleset),
      hr |-> Itoa(BoolToInt(g.IsHostRotation)),
      gm |-> Itoa(g.MapGameMode),
      d |-> FormatFloat(g.MapDifficultyRating),
      inp |-> Itoa(BoolToInt(g.InProgress)),
      m |-> Itoa(g.GlobalModifiers),
      fm |-> Itoa(g.FreeModType),
      trn |-> Itoa(BoolToInt(g.IsTournamentMode)) ]

\* HSET of the settings list; an error is logged.
cacheMatchSettings(g, r, ok) ==
    IF ok THEN RedisHSet(r, getMatchSettingsRedisKey(g), MatchSettingsFields(g))
    ELSE r

\* DEL of the settings key; an error is logged.
deleteCachedMatchSettings(g, r, ok) ==
    IF ok THEN RedisDel(r, {getMatchSettingsRedisKey(g)}) ELSE r

\* utils.Find over PlayerWins / PlayerModifiers, 0 when there is no entry.
FindOr0(entries, id) == IF id \in DOMAIN entries THEN entries[id] ELSE 0

\* "r": whether the player is in PlayersReady.
ReadyFlag(g, id) == Includes(g.PlayersReady, id)

\* Faulty variant: the negation is missing.
HasMapFlagNotNegated(g, id) == Includes(g.PlayersWithoutMap, id)

\* "hm": whether the player is not in PlayersWithoutMap.
HasMapFlag(g, id) == ~Includes(g.PlayersWithoutMap, id)

\* Faulty variant: only the two flags are written.
PlayerFieldsChangedOnly(g, id) ==
    [ r |-> Itoa(BoolToInt(ReadyFlag(g, id))),
      hm |-> Itoa(BoolToInt(HasMapFlag(g, id))) ]

\* The player list of cachePlayer.
PlayerFields(g, id) ==
    [ id |-> Itoa(Info(id).Id),
      u |-> Info(id).Username,
      sid |-> Info(id).SteamId,
      a |-> Info(id).AvatarUrl,
      c |-> Info(id).Country,
      w |-> Itoa(FindOr0(g.PlayerWins, id)),
      m |-> Itoa(FindOr0(g.PlayerModifiers, id)),
      r |-> Itoa(BoolToInt(ReadyFlag(g, id))),
      hm |-> Itoa(BoolToInt(HasMapFlag(g, id))) ]

\* Faulty variant: the record is written whether or not the user has a
\* session.
cachePlayerAnyUser(g, r, id, ok) ==
    IF ok THEN RedisHSet(r, getPlayerRedisKey(g, id), PlayerFields(g, id))
    ELSE r

\* Nothing is written for a user without a session; otherwise HSET of the
\* player list, an error is logged.
cachePlayer(g, r, id, ok) ==
    IF GetUserById(id) = {} THEN r
    ELSE IF ok THEN RedisHSet(r, getPlayerRedisKey(g, id), PlayerFields(g, id))
    ELSE r

\* Whether cachePlayer wrote the record.
cachePlayerWrote(id, ok) == GetUserById(id) # {} /\ ok

\* Faulty variant: the settings key is deleted instead.
deleteCachedPlayerWrongKey(g, r, id, ok) ==
    IF ok THEN RedisDel(r, {getMatchSettingsRedisKey(g)}) ELSE r

\* DEL of the player key; an error is logged.
deleteCachedPlayer(g, r, id, ok) ==
    IF ok THEN RedisDel(r, {getPlayerRedisKey(g, id)}) ELSE r

\* --------------------------------------------------------- game handlers
\* Field f of the hash at key k, "" when the key is absent.
Had(k, f) == IF k \in DOMAIN redis THEN redis[k][f] ELSE ""

\* One more room operation.
GameOp ==
    /\ gameOps < MaxGameOps
    /\ gameOps' = gameOps + 1

\* A room is created and its settings are cached.
CreateGame(host) ==
    /\ GameOp
    /\ phase = "none"
    /\ host \in online
    /\ phase' = "open"
    /\ game' = NewGame(host)
    /\ \E ok \in BOOLEAN :
        /\ redis' = cacheMatchSettings(game', redis, ok)
        /\ lastOp' = [op |-> "cacheMatchSettings", id |-> 0, ok |-> ok,
                      had |-> Had(getMatchSettingsRedisKey(game'), "d")]
    /\ UNCHANGED <<delFailed, everCached>>
    /\ UNCHANGED notGame

\* The after-effect of a handler that changed a player's sub-state.
CachePlayerAfter(p) ==
    \E ok \in BOOLEAN :
        /\ redis' = cachePlayer(game', redis, p, ok)
        /\ lastOp' = [op |-> "cachePlayer", id |-> p,
                      ok |-> cachePlayerWrote(p, ok),
                      had |-> Had(getPlayerRedisKey(game', p), "r")]
        /\ everCached' = IF cachePlayerWrote(p, ok)
                         THEN everCached \cup {p} ELSE everCached

\* A user joins the room (not ready).
AddPlayer(p) ==
    /\ GameOp
    /\ phase = "open"
    /\ p \in online
    /\ p \notin game.PlayerIds
    /\ Cardinality(game.PlayerIds) < game.MaxPlayers
    /\ game' = [game EXCEPT !.PlayerIds = @ \cup {p}]
    /\ CachePlayerAfter(p)
    /\ UNCHANGED <<phase, delFailed>>
    /\ UNCHANGED notGame

\* A member reports ready or not ready.
SetPlayerReady(p) ==
    /\ GameOp
    /\ phase = "open"
    /\ p \in game.PlayerIds
    /\ \E b \in BOOLEAN :
        game' = [game EXCEPT !.PlayersReady =
                    IF b THEN @ \cup {p} ELSE @ \ {p}]
    /\ CachePlayerAfter(p)
    /\ UNCHANGED <<phase, delFailed>>
    /\ UNCHANGED notGame

\* A member reports that it has, or lacks, the selected map.
SetPlayerHasMap(p) ==
    /\ GameOp
    /\ phase = "open"
    /\ p \in game.PlayerIds
    /\ \E b \in BOOLEAN :
        game' = [game EXCEPT !.PlayersWithoutMap =
                    IF b THEN @ \ {p} ELSE @ \cup {p}]
    /\ CachePlayerAfter(p)
    /\ UNCHANGED <<phase, delFailed>>
    /\ UNCHANGED notGame

\* A member wins a match: its first win is recorded.
SetPlayerWin(p) ==
    /\ GameOp
    /\ phase = "open"
    /\ p \in game.PlayerIds
    /\ p \notin DOMAIN game.PlayerWins
    /\ game' = [game EXCEPT !.PlayerWins = (p :> 1) @@ @]
    /\ CachePlayerAfter(p)
    /\ UNCHANGED <<phase, delFailed>>
    /\ UNCHANGED notGame

\* A member leaves: its sub-state goes and its record is deleted.
RemovePlayer(p) ==
    /\ GameOp
    /\ phase = "open"
    /\ p \in game.PlayerIds
    /\ game' = [game EXCEPT
                  !.PlayerIds = @ \ {p},
                  !.PlayersReady = @ \ {p},
                  !.PlayersWithoutMap = @ \ {p},
                  !.PlayerWins = [x \in DOMAIN @ \ {p} |-> @[x]]]
    /\ \E ok \in BOOLEAN :
        /\ redis' = deleteCachedPlayer(game, redis, p, ok)
        /\ lastOp' = [op |-> "deleteCachedPlayer", id |-> p, ok |-> ok,
                      had |-> Had(getPlayerRedisKey(game, p), "r")]
        /\ delFailed' = IF ok THEN delFailed
                        ELSE delFailed \cup {getPlayerRedisKey(game, p)}
    /\ UNCHANGED <<phase, everCached>>
    /\ UNCHANGED notGame

\* The host changes the map and starts or stops the match.
ChangeSettings ==
    /\ GameOp
    /\ phase = "open"
    /\ \E d \in {0, 25}, inp \in BOOLEAN :
        game' = [game EXCEPT !.MapDifficultyRating = d, !.InProgress = inp]
    /\ game' # game
    /\ \E ok \in BOOLEAN :
        /\ redis' = cacheMatchSettings(game', redis, ok)
        /\ lastOp' = [op |-> "cacheMatchSettings", id |-> 0, ok |-> ok,
                      had |-> Had(getMatchSettingsRedisKey(game'), "d")]
    /\ UNCHANGED <<phase, delFailed, everCached>>
    /\ UNCHANGED notGame

\* DEL of the records of the players in ps, each with its own outcome.
RECURSIVE DeletePlayers(_, _, _, _)
DeletePlayers(g, r, ps, oks) ==
    IF ps = {} THEN r
    ELSE LET p == CHOOSE x \in ps : TRUE
         IN DeletePlayers(g, deleteCachedPlayer(g, r, p, oks[p]), ps \ {p}, oks)

\* The room is closed: its settings record and the record of every member
\* are deleted.
CloseGame ==
    /\ GameOp
    /\ phase = "open"
    /\ phase' = "closed"
    /\ \E ok \in BOOLEAN, oks \in [game.PlayerIds -> BOOLEAN] :
        /\ redis' = DeletePlayers(game,
                        deleteCachedMatchSettings(game, redis, ok),
                        game.PlayerIds, oks)
        /\ lastOp' = [op |-> "close", id |-> 0,
                      ok |-> ok /\ \A p \in game.PlayerIds : oks[p],
                      had |-> Had(getMatchSettingsRedisKey(game), "d")]
        /\ delFailed' = delFailed
                        \cup (IF ok THEN {} ELSE {getMatchSettingsRedisKey(game)})
                        \cup {getPlayerRedisKey(game, p) :
                                p \in {x \in game.PlayerIds : ~oks[x]}}
    /\ UNCHANGED <<game, everCached>>
    /\ UNCHANGED notGame

\* ---------------------------------------------------------- session cache
\* Whether text k starts with text p.
HasPrefix(k, p) == Len(k) >= Len(p) /\ SubSeq(k, 1, Len(p)) = p

\* Faulty variant: every key of the server matches.
KeysOfServer(r) == {k \in DOMAIN r : HasPrefix(k, "quaver:server:")}

\* KEYS quaver:server:session:*
KeysOfSessions(r) == {k \in DOMAIN r : HasPrefix(k, "quaver:server:session:")}

\* Faulty variant: the error is dropped.
ReturnErrSwallowed(failed) == FALSE

\* if err != nil { return err }; return nil
ReturnErr(failed) == failed

\* ClearRedisUserTokens, called once when the process starts: KEYS, then one
\* DEL of all the keys found; nothing is deleted when there is none.
ClearRedisUserTokens ==
    /\ cacheCall.fn = "none"
    /\ \E keysOk, delOk \in BOOLEAN :
        LET keys == KeysOfSessions(redis)
        IN IF ~keysOk
           THEN /\ redis' = redis
                /\ cacheCall' = [fn |-> "ClearRedisUserTokens", failed |-> TRUE,
                                 err |-> ReturnErr(TRUE), dels |-> 0]
           ELSE IF keys = {}
           THEN /\ redis' = redis
                /\ cacheCall' = [fn |-> "ClearRedisUserTokens", failed |-> FALSE,
                                 err |-> FALSE, dels |-> 0]
           ELSE /\ redis' = IF delOk THEN RedisDel(redis, keys) ELSE redis
                /\ cacheCall' = [fn |-> "ClearRedisUserTokens",
                                 failed |-> ~delOk,
                                 err |-> ReturnErr(~delOk), dels |-> 1]
    /\ anyFail' = (anyFail \/ cacheCall'.failed)
    /\ UNCHANGED <<sessVars, now, online, tornDown, pc, loc, calls,
                   argsStarted, installs, lastSetter>>
    /\ UNCHANGED <<netVars, gameVars>>

\* The key of the online-user count.
OnlineUsersKey == "quaver:server:online_users"

\* GetOnlineUserCount(): the number of registered sessions.
GetOnlineUserCount == Cardinality(online)

\* UpdateRedisOnlineUserCount: SET of the count; the error is returned.
UpdateRedisOnlineUserCount ==
    /\ Started
    /\ \E ok \in BOOLEAN :
        /\ redis' = IF ok
                    THEN RedisSet(redis, OnlineUsersKey,
                                  ToString(GetOnlineUserCount))
                    ELSE redis
        /\ cacheCall' = [fn |-> "UpdateRedisOnlineUserCount", failed |-> ~ok,
                         err |-> ReturnErr(~ok), dels |-> 0]
        /\ anyFail' = (anyFail \/ ~ok)
    /\ UNCHANGED <<sessVars, now, online, tornDown, pc, loc, calls,
                   argsStarted, installs, lastSetter>>
    /\ UNCHANGED <<netVars, gameVars>>

\* addUserTokenToRedis(user) for a registered session, with what it returns.
addUserTokenToRedis_Call(id) ==
    /\ Started
    /\ id \in online
    /\ \E ok \in BOOLEAN :
        /\ redis' = addUserTokenToRedis(redis, id, ok)
        /\ cacheCall' = [fn |-> "addUserTokenToRedis", failed |-> ~ok,
                         err |-> ReturnErr(~ok), dels |-> 0]
        /\ anyFail' = (anyFail \/ ~ok)
    /\ UNCHANGED <<sessVars, now, online, tornDown, pc, loc, calls,
                   argsStarted, installs, lastSetter>>
    /\ UNCHANGED <<netVars, gameVars>>

\* removeUserTokenFromRedis(user), with what it returns.
removeUserTokenFromRedis_Call(id) ==
    /\ Started
    /\ id \in online
    /\ \E ok \in BOOLEAN :
        /\ redis' = removeUserTokenFromRedis(redis, id, ok)
        /\ cacheCall' = [fn |-> "removeUserTokenFromRedis", failed |-> ~ok,
                         err |-> ReturnErr(~ok), dels |-> 1]
        /\ anyFail' = (anyFail \/ ~ok)
    /\ UNCHANGED <<sessVars, now, online, tornDown, pc, loc, calls,
                   argsStarted, installs, lastSetter>>
    /\ UNCHANGED <<netVars, gameVars>>

\* Tokens of sessions of the run before this one.
OldTokens == {"old1", "old2"}

\* What the run before this one can have left in the cache: session tokens,
\* a user status, the online count, a game and a player of it.
Leftover ==
    [k \in {SessionKeyOfToken(t) : t \in OldTokens} |-> "9"]
        @@ (getRedisClientStatusKey(TheUser) :> StatusFields(NewUserStatus))
        @@ (OnlineUsersKey :> "2")
        @@ (getMatchSettingsRedisKey(NewGame(TheUser))
                :> MatchSettingsFields(NewGame(TheUser)))
        @@ (getPlayerRedisKey(NewGame(TheUser), TheUser)
                :> PlayerFields(NewGame(TheUser), TheUser))

\* The caches a starting process can find: empty, session tokens only, no
\* session token, or everything.
LeftoverCaches ==
    LET old == {SessionKeyOfToken(t) : t \in OldTokens}
    IN {[k \in S |-> Leftover[k]] :
            S \in {{}, old, DOMAIN Leftover \ old, DOMAIN Leftover}}

\* The process starts over a cache that outlived the run before.
InitRestart ==
    /\ InitMemory
    /\ redis \in LeftoverCaches
    /\ cacheCall = NoCall

\* --------------------------------------------------------- specifications
\* The status of a session and its mirror in the cache, from login to
\* teardown.
NextStatus ==
    \/ \E w \in Workers : SetClientStatus(w) \/ GetClientStatus(w) \/ Return(w)
    \/ AddUser(TheUser)
    \/ RemoveUser(TheUser)

SpecStatus == Init /\ [][NextStatus]_vars

\* The statistics of a session.
NextStats ==
    \/ \E w \in Workers : SetStats(w) \/ GetStats(w) \/ Return(w)
    \/ AddUser(TheUser)

SpecStats == Init /\ [][NextStats]_vars

\* The mute check against a running clock, beside a mutator.
NextMute ==
    \/ \E w \in Workers : IsMuted(w) \/ SetClientStatus(w) \/ Return(w)
    \/ AddUser(TheUser)
    \/ Tick

SpecMute == Init /\ [][NextMute]_vars

\* The packet form of a session, beside the mutators of the session.
NextSerialize ==
    \/ \E w \in Workers :
        \/ SerializeForPacket(w)
        \/ SetClientStatus(w)
        \/ Return(w)
    \/ AddUser(TheUser)
    \/ RemoveUser(TheUser)

SpecSerialize == Init /\ [][NextSerialize]_vars

\* What a goroutine does once it is inside a call: every step but the call
\* itself.
Step(w) ==
    \/ SetClientStatus_Lock(w)
    \/ SetClientStatus_Store(w)
    \/ addUserClientStatusToRedis_Read(w)
    \/ addUserClientStatusToRedis_Write(w)
    \/ GetClientStatus_Lock(w)
    \/ GetClientStatus_Read(w)
    \/ SetStats_Lock(w)
    \/ SetStats_Mode(w)
    \/ SetStats_Done(w)
    \/ GetStats_Lock(w)
    \/ GetStats_Read(w)
    \/ IsMuted_Lock(w)
    \/ IsMuted_Read(w)
    \/ SerializeForPacket_Lock(w)
    \/ SerializeForPacket_Read(w)
    \/ Return(w)

\* The accessors and mutators of one session called by concurrent
\* goroutines.
NextLive ==
    \/ \E w \in Workers :
        \/ calls < MaxLiveCalls /\ SetClientStatus_Call(w)
        \/ calls < MaxLiveCalls /\ GetClientStatus_Call(w)
        \/ calls < MaxLiveCalls /\ SetStats_Call(w)
        \/ calls < MaxLiveCalls /\ GetStats_Call(w)
        \/ calls < MaxLiveCalls /\ IsMuted_Call(w)
        \/ calls < MaxLiveCalls /\ SerializeForPacket_Call(w)
        \/ Step(w)
    \/ AddUser(TheUser)

\* The scheduler runs every goroutine that can run, and the database and
\* the cache answer every command: a step a goroutine can take stays
\* possible until it is taken or the mutex is taken by another.
SpecLive ==
    Init /\ [][NextLive]_vars /\ \A w \in Workers : WF_vars(Step(w))

\* Broadcasts over connections that may break.
NextSend ==
    \/ \E w \in Senders : SendPacketToUsers(w) \/ Return(w)
    \/ \E c \in UserIds : ConnBreak(c)

SpecSend == Init /\ [][NextSend]_vars

\* Status changes and broadcasts side by side: every call that leaves the
\* process for the cache or for a connection.
NextIO ==
    \/ \E w \in Workers : SetClientStatus(w) \/ Return(w)
    \/ \E w \in Senders : SendPacketToUsers(w)
    \/ AddUser(TheUser)

SpecIO == Init /\ [][NextIO]_vars

\* A multiplayer game and its mirror in the cache, while users log in and
\* out.
NextGame ==
    \/ \E id \in UserIds : AddUser(id) \/ RemoveUser(id)
    \/ \E p \in UserIds :
        \/ CreateGame(p)
        \/ AddPlayer(p)
        \/ SetPlayerReady(p)
        \/ SetPlayerHasMap(p)
        \/ SetPlayerWin(p)
        \/ RemovePlayer(p)
    \/ ChangeSettings
    \/ CloseGame

SpecGame == Init /\ [][NextGame]_vars

\* The cache operations of the process, from the startup clear on.
NextCache ==
    \/ ClearRedisUserTokens
    \/ UpdateRedisOnlineUserCount
    \/ \E id \in UserIds :
        \/ AddUser(id)
        \/ addUserTokenToRedis_Call(id)
        \/ removeUserTokenFromRedis_Call(id)
    \/ CreateGame(TheUser)
    \/ CloseGame

SpecCache == InitRestart /\ [][NextCache]_vars

\* One user and one game writing every kind of cache record.
NextKeys ==
    \/ \E id \in UserIds : AddUser(id)
    \/ UpdateRedisOnlineUserCount
    \/ \E w \in Senders : SetClientStatus(w) \/ Return(w)
    \/ CreateGame(TheUser)
    \/ \E p \in UserIds : AddPlayer(p)

SpecKeys == Init /\ [][NextKeys]_vars

\* ----------------------------------------------------------------- claims
\* C1: SetStats is all-or-nothing. When a lookup fails, the call returns the
\* failure and u.stats is what it was when the call began; when none fails,
\* every mode holds what this call loaded.
C1_SetStatsAllOrNothing ==
    \A w \in Workers :
        pc[w] = "SS_ret" =>
            IF loc[w].err
            THEN loc[w].after = loc[w].before
            ELSE /\ DOMAIN loc[w].after = 1..MaxMode
                 /\ \A m \in 1..MaxMode : loc[w].after[m] = loc[w].loaded[m]

\* C2: GetClientStatus returns a whole status that some SetClientStatus call
\* already started was given, or the status NewUser installed when no
\* assignment had taken effect; never a mixture of two statuses.
C2_NoTornStatus ==
    \A w \in Workers :
        pc[w] = "GCS_ret" =>
            /\ \/ loc[w].ret \in argsStarted
               \/ loc[w].ret = NewUserStatus /\ loc[w].saw = 0
            /\ loc[w].saw > 0 => loc[w].ret \in argsStarted

\* A read that returned one status while another goroutine was already
\* installing a different one.
C2_Witness ==
    \E w, o \in Workers :
        /\ pc[w] = "GCS_ret"
        /\ loc[w].ret \in StatusArgs
        /\ pc[o] \in {"SCS_lock", "SCS_locked", "SCS_read"}
        /\ loc[o].arg # loc[w].ret

\* C3: a failed write to one recipient never keeps SendPacketToUsers from
\* writing to the others. When the call has returned, the loop has passed
\* every recipient, and every listed recipient whose connection still works
\* was written the marshalled payload once for each time it is listed.
C3_FailureIsolated ==
    \A w \in Workers :
        pc[w] = "SPU_ret" =>
            LET us == loc[w].users
                m == Marshal(loc[w].data)
            IN /\ loc[w].k = Len(us) + 1
               /\ \A i \in 1..Len(us) :
                    (connUp[us[i]] /\ ~m.err) =>
                        LET c == us[i]
                            new == SubSeq(inbox[c], Len(loc[w].inbox0[c]) + 1,
                                          Len(inbox[c]))
                        IN /\ Len(new) >= Cardinality({j \in 1..Len(us) : us[j] = c})
                           /\ \A n \in 1..Len(new) : new[n] = m.j

\* The write to the first recipient failed and the second recipient, on a
\* working connection, holds the frame.
C3_Witness ==
    \E w \in Workers :
        /\ pc[w] = "SPU_ret"
        /\ Len(loc[w].users) = 2
        /\ loc[w].users[1] # loc[w].users[2]
        /\ Len(loc[w].log) = 2
        /\ ~loc[w].log[1].ok
        /\ connUp[loc[w].users[2]]
        /\ Len(inbox[loc[w].users[2]]) > Len(loc[w].inbox0[loc[w].users[2]])

\* C4: after the session of token t is torn down, a lookup by t finds
\* nothing and the cache holds neither its session-token record nor the
\* user-status record SetClientStatus wrote for the user. Stated for the
\* case most favourable to it: no cache command has failed, and every call
\* on the session has returned.
C4_NoOrphanedRows ==
    \A id \in tornDown :
        (~anyFail /\ \A w \in Workers : pc[w] = "idle") =>
            /\ GetUserByToken(Token(id)) = {}
            /\ getRedisSessionKey(id) \notin DOMAIN redis
            /\ getRedisClientStatusKey(id) \notin DOMAIN redis

\* C6: SetClientStatus(s) installs s and issues exactly one cache write;
\* whether or not that write fails, the status is still s afterwards unless
\* another call has assigned it since, and the call returns.
C6_StatusInstalledCacheBestEffort ==
    \A w \in Workers :
        /\ pc[w] \in {"SCS_read", "SCS_hset"} =>
            /\ loc[w].attempts = 0
            /\ lastSetter = w => status = loc[w].arg
        /\ pc[w] = "SCS_ret" =>
            /\ loc[w].attempts = 1
            /\ lastSetter = w => status = loc[w].arg

\* The cache write failed, the call returned, and the status in memory is
\* the argument.
C6_Witness ==
    \E w \in Workers :
        /\ pc[w] = "SCS_ret"
        /\ loc[w].failed
        /\ lastSetter = w
        /\ status = loc[w].arg
        /\ getRedisClientStatusKey(TheUser) \notin DOMAIN redis

\* C7: no goroutine holds the session mutex while its cache call or its
\* connection write is in progress.
C7_NoLockAcrossIO ==
    \A w \in Workers :
        pc[w] \in {"SCS_read", "SCS_hset", "SPU_loop"} => mutex # w

\* One goroutine is at its cache write while the other holds the mutex:
\* the pending write blocks nobody.
C7_Witness ==
    \E w, o \in Workers :
        /\ pc[w] = "SCS_hset"
        /\ pc[o] = "SCS_locked"
        /\ mutex = o

\* C8: IsMuted returns true exactly when the stored mute expiry is strictly
\* greater than the time it read, false when they are equal or the expiry is
\* smaller; its steps change nothing of the session but the mutex, and
\* nothing outside it.
C8_IsMutedResult ==
    \A w \in Workers :
        pc[w] = "IM_ret" =>
            /\ loc[w].b = TRUE <=> Info(TheUser).MuteEndTime > loc[w].t
            /\ Info(TheUser).MuteEndTime = loc[w].t => loc[w].b = FALSE
            /\ Info(TheUser).MuteEndTime < loc[w].t => loc[w].b = FALSE

C8_IsMutedStep ==
    \A w \in Workers :
        (pc[w] \in {"IM_lock", "IM_locked"} /\ pc'[w] # pc[w]) =>
            UNCHANGED <<stats, status, redis, online, tornDown, connUp, inbox>>

C8_IsMutedPure == []C8_IsMutedResult /\ [][C8_IsMutedStep]_vars

\* The boundary: the clock stood exactly at the expiry and the answer was
\* false.
C8_Witness ==
    \E w \in Workers :
        /\ pc[w] = "IM_ret"
        /\ loc[w].t = Info(TheUser).MuteEndTime
        /\ loc[w].b = FALSE

\* The keys the game's records live under.
RoomKeys ==
    {getMatchSettingsRedisKey(game)}
        \cup {getPlayerRedisKey(game, p) : p \in UserIds}

\* C5 as stated: once the room is closed the cache holds neither its
\* settings record nor a record of any player ever cached for it.
C5_ClosedRoomLeavesNothing ==
    phase = "closed" =>
        /\ getMatchSettingsRedisKey(game) \notin DOMAIN redis
        /\ \A p \in everCached : getPlayerRedisKey(game, p) \notin DOMAIN redis

\* C5 as amended: once the room is closed, the only records of the room
\* left in the cache are records whose DEL failed.
C5_ClosedRoomLeavesOnlyFailedDeletes ==
    phase = "closed" =>
        \A k \in RoomKeys : k \in DOMAIN redis => k \in delFailed

\* The room was closed with every DEL succeeding while a player cached for
\* it had no session anymore: nothing of the room is left.
C5_Witness ==
    /\ phase = "closed"
    /\ delFailed = {}
    /\ \E p \in everCached : p \notin online /\ p \in game.PlayerIds
    /\ RoomKeys \cap DOMAIN redis = {}

\* What the record of player p must say about readiness and the map.
C9_FlagsRight(p) ==
    LET k == getPlayerRedisKey(game, p)
    IN /\ k \in DOMAIN redis
       /\ redis[k].r = (IF p \in game.PlayersReady THEN "1" ELSE "0")
       /\ redis[k].hm = (IF p \in game.PlayersWithoutMap THEN "0" ELSE "1")

\* C9 as stated: after a successful cachePlayer(p) field r is "1" iff p is
\* ready and field hm is "1" iff p is not without the map; after
\* deleteCachedPlayer(p) the key of p is absent.
C9_PlayerRecord ==
    /\ (lastOp.op = "cachePlayer" /\ lastOp.ok) => C9_FlagsRight(lastOp.id)
    /\ lastOp.op = "deleteCachedPlayer" =>
            getPlayerRedisKey(game, lastOp.id) \notin DOMAIN redis

\* C9 as amended: the same, the key of p being absent after a
\* deleteCachedPlayer(p) whose DEL succeeded.
C9_PlayerRecordWhenDelSucceeds ==
    /\ (lastOp.op = "cachePlayer" /\ lastOp.ok) => C9_FlagsRight(lastOp.id)
    /\ (lastOp.op = "deleteCachedPlayer" /\ lastOp.ok) =>
            getPlayerRedisKey(game, lastOp.id) \notin DOMAIN redis

\* The example: player 7 joined room 42, was marked ready so that its
\* record said r = "1", then left, and its key is absent.
C9_Witness ==
    /\ lastOp.op = "deleteCachedPlayer"
    /\ lastOp.ok
    /\ lastOp.id = 7
    /\ lastOp.had = "1"
    /\ "quaver:server:multiplayer:42:player:7" \notin DOMAIN redis

\* The full settings record of the game as it is now.
C10_SettingsRecord ==
    [ n |-> game.Name,
      pw |-> IF game.HasPassword THEN "1" ELSE "0",
      mp |-> "8",
      md5 |-> game.MapMD5,
      mid |-> "1",
      msid |-> "2",
      map |-> game.MapName,
      host |-> IF game.HostId = 7 THEN "7" ELSE "8",
      r |-> "1",
      hr |-> IF game.IsHostRotation THEN "1" ELSE "0",
      gm |-> "1",
      d |-> IF game.MapDifficultyRating = 25 THEN "2.5" ELSE "0",
      inp |-> IF game.InProgress THEN "1" ELSE "0",
      m |-> "0",
      fm |-> "0",
      trn |-> IF game.IsTournamentMode THEN "1" ELSE "0" ]

\* The full record of player p as the game is now.
C10_PlayerRecord(p) ==
    [ id |-> IF p = 7 THEN "7" ELSE "8",
      u |-> Info(p).Username,
      sid |-> Info(p).SteamId,
      a |-> Info(p).AvatarUrl,
      c |-> Info(p).Country,
      w |-> IF p \in DOMAIN game.PlayerWins THEN "1" ELSE "0",
      m |-> "0",
      r |-> IF p \in game.PlayersReady THEN "1" ELSE "0",
      hm |-> IF p \in game.PlayersWithoutMap THEN "0" ELSE "1" ]

C11_Result ==
    cacheCall.fn # "none" => (cacheCall.err <=> cacheCall.failed)

\* A call of a cache function of the sessions package changes nothing in
\* memory, and a room is created or closed in memory whether or not the
\* cache command of the step failed.
C11_Step ==
    /\ cacheCall' # cacheCall =>
            UNCHANGED <<mutex, stats, status, online, tornDown, game, phase>>
    /\ (gameOps' # gameOps /\ lastOp'.op = "cacheMatchSettings") =>
            phase' = "open" /\ game' = NewGame(TheUser)
    /\ (gameOps' # gameOps /\ lastOp'.op = "close") =>
            phase' = "closed" /\ game' = game

C12_OldSessionKeys ==
    {"quaver:server:session:old1", "quaver:server:session:old2"}

\* After a startup clear that succeeded and before any other cache call, no
\* session token of the run before is in the cache.
C12_Cleared ==
    (cacheCall.fn = "ClearRedisUserTokens" /\ ~cacheCall.err) =>
        C12_OldSessionKeys \cap DOMAIN redis = {}

\* A startup clear that succeeds removes every session key, keeps every
\* other key with its value, adds none, and issues no DEL when it found no
\* session key.
C12_ClearStep ==
    (cacheCall.fn = "none" /\ cacheCall'.fn = "ClearRedisUserTokens"
        /\ ~cacheCall'.err) =>
        /\ C12_OldSessionKeys \cap DOMAIN redis' = {}
        /\ DOMAIN redis' = DOMAIN redis \ C12_OldSessionKeys
        /\ \A k \in DOMAIN redis' : redis'[k] = redis[k]
        /\ C12_OldSessionKeys \cap DOMAIN redis = {} =>
                cacheCall'.dels = 0 /\ redis' = redis
        /\ C12_OldSessionKeys \cap DOMAIN redis # {} => cacheCall'.dels = 1

\* C12: ClearRedisUserTokens, when it succeeds, leaves no key of the session
\* namespace and leaves every other key as it was; with no session key it
\* issues no delete and succeeds.
C12_ClearSessionsOnly ==
    []C12_Cleared /\ [][C12_ClearStep]_vars

\* The clear deleted the session tokens and the records of the game, of the
\* player, of the status and of the count are still there.
C12_Witness ==
    /\ cacheCall.fn = "ClearRedisUserTokens"
    /\ ~cacheCall.err
    /\ cacheCall.dels = 1
    /\ DOMAIN redis = {"quaver:server:user_status:7",
                       "quaver:server:online_users",
                       "quaver:server:multiplayer:42",
                       "quaver:server:multiplayer:42:player:7"}

\* C13 as stated: every key in the cache is one of the documented keys.
C13_DocumentedKeys ==
    \A k \in DOMAIN redis :
        k \in {"server:session:tok7", "server:session:tok8",
               "server:user_status:7", "server:online_users",
               "server:multiplayer:42", "server:multiplayer:42:player:7",
               "server:multiplayer:42:player:8"}

\* C13 as amended: every key is the documented key behind the prefix
\* "quaver:", and it is the key of the entity whose record it holds.
C13_PrefixedKeys ==
    /\ \A k \in DOMAIN redis :
        k \in {"quaver:server:session:tok7", "quaver:server:session:tok8",
               "quaver:server:user_status:7", "quaver:server:online_users",
               "quaver:server:multiplayer:42",
               "quaver:server:multiplayer:42:player:7",
               "quaver:server:multiplayer:42:player:8"}
    /\ "quaver:server:session:tok7" \in DOMAIN redis =>
            redis["quaver:server:session:tok7"] = "7"
    /\ "quaver:server:session:tok8" \in DOMAIN redis =>
            redis["quaver:server:session:tok8"] = "8"
    /\ "quaver:server:multiplayer:42:player:7" \in DOMAIN redis =>
            redis["quaver:server:multiplayer:42:player:7"].id = "7"
    /\ "quaver:server:multiplayer:42:player:8" \in DOMAIN redis =>
            redis["quaver:server:multiplayer:42:player:8"].id = "8"
    /\ "quaver:server:multiplayer:42" \in DOMAIN redis =>
            redis["quaver:server:multiplayer:42"].host = "7"
    /\ "quaver:server:online_users" \in DOMAIN redis =>
            redis["quaver:server:online_users"] \in {"0", "1", "2"}
    /\ "quaver:server:user_status:7" \in DOMAIN redis => installs > 0
    /\ (lastOp.op = "cachePlayer" /\ lastOp.ok) =>
            (IF lastOp.id = 7 THEN "quaver:server:multiplayer:42:player:7"
             ELSE "quaver:server:multiplayer:42:player:8") \in DOMAIN redis
    /\ (lastOp.op = "cacheMatchSettings" /\ lastOp.ok) =>
            "quaver:server:multiplayer:42" \in DOMAIN redis
    /\ (cacheCall.fn = "UpdateRedisOnlineUserCount" /\ ~cacheCall.failed) =>
            "quaver:server:online_users" \in DOMAIN redis
    /\ \A w \in Senders : (pc[w] = "SCS_ret" /\ ~loc[w].failed) =>
            "quaver:server:user_status:7" \in DOMAIN redis
    /\ (online = UserIds /\ ~anyFail) =>
            {"quaver:server:session:tok7", "quaver:server:session:tok8"}
                \subseteq DOMAIN redis

\* A record of every kind is in the cache at once.
C13_Witness ==
    {"quaver:server:session:tok7", "quaver:server:session:tok8",
     "quaver:server:user_status:7", "quaver:server:online_users",
     "quaver:server:multiplayer:42",
     "quaver:server:multiplayer:42:player:7",
     "quaver:server:multiplayer:42:player:8"} = DOMAIN redis

\* The value SerializeForPacket returned is the identity of the session:
\* id, platform id, username, groups, mute end time, country.
C14_Result ==
    \A w \in Workers :
        pc[w] = "SFP_ret" =>
            loc[w].pkt = [ Id |-> 7, SteamId |-> "steam7", Username |-> "user7",
                           UserGroups |-> 3, MuteEndTime |-> 1,
                           Country |-> "US" ]

\* The steps of SerializeForPacket change nothing of the session but the
\* mutex and nothing outside it, and no step of any operation changes a
\* value it has returned.
C14_Step ==
    \A w \in Workers :
        /\ (pc[w] \in {"SFP_lock", "SFP_locked"} /\ pc'[w] # pc[w]) =>
                UNCHANGED <<stats, status, redis, online, tornDown, connUp,
                            inbox>>
        /\ (pc[w] = "SFP_ret" /\ pc'[w] = "SFP_ret") =>
                loc'[w].pkt = loc[w].pkt

\* C14: SerializeForPacket returns a copy of the identity fields as they are
\* at the call; no later operation on the session changes the copy, and the
\* call changes no session state.
C14_SnapshotCopiedOut ==
    []C14_Result /\ [][C14_Step]_vars

\* A goroutine holds the packet form while another has installed a status
\* and the session has been torn down.
C14_Witness ==
    \E w, o \in Workers :
        /\ pc[w] = "SFP_ret"
        /\ loc[w].pkt.Username = "user7"
        /\ pc[o] = "SCS_hset"
        /\ status # NewUserStatus
        /\ TheUser \in tornDown

\* C15: a goroutine that holds the result of GetStats never sees through it
\* a stats map that a SetStats in progress has refreshed in part: what it
\* sees is the map as it was when that SetStats began, or the map with every
\* mode refreshed.
C15_ResultNeverPartlyRefreshed ==
    \A w, o \in Workers :
        (pc[w] = "GS_ret" /\ pc[o] = "SS_loop") =>
            \/ GetStatsResult = loc[o].before
            \/ /\ DOMAIN GetStatsResult = 1..MaxMode
               /\ \A m \in 1..MaxMode :
                    /\ m \in DOMAIN loc[o].loaded
                    /\ GetStatsResult[m] = loc[o].loaded[m]

\* C16 as stated: when SendPacketToUsers has returned it has made exactly
\* one write attempt for each listed recipient, in the order of the list.
C16_ExactlyOneAttemptEach ==
    \A w \in Workers :
        pc[w] = "SPU_ret" =>
            /\ Len(loc[w].log) = Len(loc[w].users)
            /\ \A i \in 1..Len(loc[w].log) : loc[w].log[i].to = loc[w].users[i]

\* C16 as amended: with a payload json.Marshal encodes, the write attempts
\* made so far are one for each recipient the loop has passed, in the order
\* of the list, and each connection holds one new frame for each attempt on
\* it that succeeded; with a payload json.Marshal rejects, no write is
\* attempted at all. Either way the loop ends after the last recipient.
C16_OneAttemptEachWhenMarshalled ==
    \A w \in Workers :
        pc[w] \in {"SPU_loop", "SPU_ret"} =>
            LET us == loc[w].users
                lg == loc[w].log
                m == Marshal(loc[w].data)
            IN /\ m.err => lg = <<>>
               /\ ~m.err =>
                    /\ Len(lg) = loc[w].k - 1
                    /\ \A i \in 1..Len(lg) : lg[i].to = us[i]
               /\ pc[w] = "SPU_ret" => loc[w].k = Len(us) + 1
               /\ \A c \in UserIds :
                    Len(inbox[c]) = Len(loc[w].inbox0[c])
                        + Cardinality({i \in 1..Len(lg) :
                                        lg[i].to = c /\ lg[i].ok})

\* The first of two recipients failed and was not tried again: two attempts
\* in all, nothing new on the first connection, one frame on the second.
C16_Witness ==
    \E w \in Workers :
        /\ pc[w] = "SPU_ret"
        /\ Len(loc[w].users) = 2
        /\ loc[w].users[1] # loc[w].users[2]
        /\ Len(loc[w].log) = 2
        /\ ~loc[w].log[1].ok
        /\ loc[w].log[2].ok
        /\ inbox[loc[w].users[1]] = loc[w].inbox0[loc[w].users[1]]
        /\ Len(inbox[loc[w].users[2]]) = Len(loc[w].inbox0[loc[w].users[2]]) + 1

\* C17: when every SetClientStatus call on the session has returned and no
\* cache command has failed, the status record in the cache is the status
\* of the session in memory.
C17_CacheMatchesMemory ==
    ( /\ \A w \in Workers :
            pc[w] \notin {"SCS_lock", "SCS_locked", "SCS_read", "SCS_hset"}
      /\ ~anyFail
      /\ installs > 0 ) =>
        /\ getRedisClientStatusKey(TheUser) \in DOMAIN redis
        /\ redis[getRedisClientStatusKey(TheUser)] = StatusFields(status)

\* Where a goroutine holds the mutex.
C18_LockedPcs ==
    {"SCS_locked", "GCS_locked", "SS_loop", "GS_locked", "IM_locked",
     "SFP_locked"}

\* Where a call has returned.
C18_ReturnedPcs ==
    {"SCS_ret", "GCS_ret", "SS_ret", "GS_ret", "IM_ret", "SFP_ret"}

\* At most one goroutine is inside a locked section, the mutex is held by
\* that goroutine and by no other, and it is free when every call has
\* returned.
C18_Mutex ==
    /\ Cardinality({w \in Workers : pc[w] \in C18_LockedPcs}) <= 1
    /\ \A w \in Workers : pc[w] \in C18_LockedPcs <=> mutex = w
    /\ (\A w \in Workers : pc[w] \in C18_ReturnedPcs \cup {"idle"}) =>
            mutex = NoOne

\* C18: every session operation releases the mutex on every return path,
\* the error return of SetStats included: at most one goroutine holds it,
\* it is free once all calls have returned, and every call returns.
C18_LockReleasedCallsReturn ==
    /\ []C18_Mutex
    /\ \A w \in Workers :
            (pc[w] \notin C18_ReturnedPcs \cup {"idle"})
                ~> (pc[w] \in C18_ReturnedPcs)

\* SetStats has returned its error and another goroutine holds the mutex.
C18_Witness ==
    \E w, o \in Workers :
        /\ pc[w] = "SS_ret"
        /\ loc[w].err
        /\ pc[o] \in C18_LockedPcs
        /\ mutex = o

\* Only cachePlayer writes a player record: a player never cached for the
\* game has none.
C19_NeverCachedNoRecord ==
    \A p \in UserIds :
        (phase # "none" /\ p \notin everCached) =>
            getPlayerRedisKey(game, p) \notin DOMAIN redis

\* A handler that changes an attribute of a member whose session is gone
\* and calls cachePlayer for it leaves the whole cache as it was.
C19_Step ==
    \A p \in UserIds :
        ( /\ gameOps' # gameOps
          /\ lastOp'.op = "cachePlayer"
          /\ lastOp'.id = p
          /\ p \notin online ) =>
            /\ redis' = redis
            /\ ~lastOp'.ok

\* C19: cachePlayer(id) for a user without a live session writes nothing
\* and leaves the record of the player as it was, so that the change of the
\* member's attribute is not mirrored to the cache.
C19_NoSessionNoWrite ==
    []C19_NeverCachedNoRecord /\ [][C19_Step]_vars

\* A member whose session is gone was marked ready, and its record in the
\* cache still says that it is not.
C19_Witness ==
    /\ lastOp.op = "cachePlayer"
    /\ ~lastOp.ok
    /\ lastOp.id \notin online
    /\ lastOp.id \in game.PlayersReady
    /\ getPlayerRedisKey(game, lastOp.id) \in DOMAIN redis
    /\ redis[getPlayerRedisKey(game, lastOp.id)].r = "0"

====
